---- MODULE Spec2Model ----
(***************************************************************************)
(* Model of src/librustdoc/clean/inline.rs: inlining of the documentation  *)
(* of externally defined items (try_inline and the builders it drives).    *)
(*                                                                         *)
(* The compiled metadata of the external crate (csearch / ty tables) is    *)
(* the immutable input `store`.  A pass is a sequence of try_inline calls, *)
(* one per re-export of the local crate.  The recursion                    *)
(* try_inline_def -> build_module -> each_child_of_item -> try_inline_def  *)
(* is kept as an explicit call stack, one frame per module being built.    *)
(***************************************************************************)
EXTENDS Integers, Sequences, FiniteSets, TLC

VARIABLES store, typed, uses, external_paths, populated, pc, stack, cur, result, paths0, pop0, inlined

vars == <<store, typed, uses, external_paths, populated, pc, stack, cur, result, paths0, pop0, inlined>>

----------------------------------------------------------------------------
(* Bounds of the explored inputs.                                          *)

MaxChildren == 2
MaxImpls == 2
MaxMethods == 1
MaxFields == 3
MaxUses == 2
MaxDepth == 3

----------------------------------------------------------------------------
(* Option values.                                                          *)

None == [tag |-> "None"]
Some(x) == [tag |-> "Some", val |-> x]

RECURSIVE SeqsUpTo(_, _)
SeqsUpTo(elems, n) ==
    IF n = 0 THEN {<<>>}
    ELSE LET shorter == SeqsUpTo(elems, n - 1)
         IN  shorter \cup {Append(s, x) : s \in {t \in shorter : Len(t) = n - 1}, x \in elems}

----------------------------------------------------------------------------
(* Definition ids: ast::DefId {krate, node}.                               *)

LOCAL_CRATE == "local"
EXTERN_CRATE == "extern"

M1 == <<EXTERN_CRATE, "m1">>
M2 == <<EXTERN_CRATE, "m2">>
F  == <<EXTERN_CRATE, "f">>
S  == <<EXTERN_CRATE, "S">>
T  == <<EXTERN_CRATE, "T">>
V  == <<EXTERN_CRATE, "V">>
X  == <<EXTERN_CRATE, "X">>
Tr == <<EXTERN_CRATE, "Tr">>
I  == <<EXTERN_CRATE, "impl_i">>
J  == <<EXTERN_CRATE, "impl_j">>
L  == <<LOCAL_CRATE, "l">>

ModIds == {M1, M2}
ImplIds == {I, J}
ExternIds == {M1, M2, F, S, T, V, X, Tr, I, J}
DefIds == ExternIds \cup {L}

(* Mutant: no id is taken for local.                                       *)
is_local_never(did) == FALSE

is_local(did) == did[1] = LOCAL_CRATE

(* ast::Def: the variants try_inline_def distinguishes, and one of the     *)
(* others (DefStatic) for the `_` arm.                                     *)
Def(kind, did) == [kind |-> kind, did |-> did, style |-> "NormalFn"]

def_id_of_def(def) == def.did

(* decoder::DefLike: what each_child_of_item hands to its callback.        *)
DlDef(def) == [tag |-> "DlDef", def |-> def]
DlImpl(did) == [tag |-> "DlImpl", did |-> did]
DlField == [tag |-> "DlField"]

----------------------------------------------------------------------------
(* The metadata store: the tables csearch:: and ty:: answer from.          *)
(*   children      csearch::each_child_of_item, in enumeration order       *)
(*   item_type     the structural tag of ty::lookup_item_type(did).ty      *)
(*   struct_fields ty::lookup_struct_fields, the field names in order      *)
(*   impls_of      the inherent impls the metadata lists for a type        *)
(*   impl_methods  csearch::get_impl_methods, each with the shape its      *)
(*                 ty::method(..).clean() has                              *)
(* Every id the store mentions is an id of the external crate.             *)

unnamed_field == "<unnamed_field>"
FieldNames == {unnamed_field, "x", "y"}

TyTags == {"ty_bare_fn", "ty_enum", "ty_struct", "ty_other"}

Method(wrap, inner) == [wrap |-> wrap, inner |-> inner]
MethodShapes == {Method(w, i) : w \in {"Provided", "Required"}, i \in {"TyMethodItem", "StaticItem"}}

ChildOptions ==
    { DlDef(Def("DefFn", F)), DlDef(Def("DefStruct", S)), DlDef(Def("DefVariant", V)),
      DlDef(Def("DefStatic", X)), DlImpl(I), DlField,
      DlDef(Def("DefMod", M1)), DlDef(Def("DefMod", M2)) }

(* The reference crate:  mod m1 { fn f; struct S { x }; enum-variant V }   *)
(*                       mod m2 { static X; pub use m1 }                   *)
(*                       enum T with one inherent impl, trait Tr.          *)
DefaultStore ==
    [ children |->
        [d \in DefIds |->
            IF d = M1 THEN << DlDef(Def("DefFn", F)), DlDef(Def("DefStruct", S)),
                              DlDef(Def("DefVariant", V)) >>
            ELSE IF d = M2 THEN << DlDef(Def("DefStatic", X)), DlDef(Def("DefMod", M1)) >>
            ELSE <<>>],
      item_type |->
        [d \in DefIds |->
            IF d = F THEN "ty_bare_fn"
            ELSE IF d = T THEN "ty_enum"
            ELSE IF d = S THEN "ty_struct"
            ELSE "ty_other"],
      struct_fields |-> [d \in DefIds |-> IF d = S THEN <<"x">> ELSE <<>>],
      impls_of |-> [d \in DefIds |-> IF d = T THEN <<I>> ELSE <<>>],
      impl_methods |->
        [d \in DefIds |->
            IF d = I THEN << Method("Provided", "TyMethodItem") >>
            ELSE IF d = J THEN << Method("Required", "TyMethodItem") >>
            ELSE <<>>] ]

(* The stores explored: the reference crate with one table entry varied,   *)
(* the varied entry a sequence of at most nc children, ni impls, nm        *)
(* methods or nf fields.                                                   *)
ModuleStores(nc) ==
    { [DefaultStore EXCEPT !.children[m] = c] :
        m \in ModIds, c \in SeqsUpTo(ChildOptions, nc) }

ImplStores(ni, nm) ==
    { [DefaultStore EXCEPT !.impls_of[t] = il, !.impl_methods[I] = ms] :
        t \in {S, T}, il \in SeqsUpTo(ImplIds, ni), ms \in SeqsUpTo(MethodShapes, nm) }

TypeStores ==
    { [DefaultStore EXCEPT !.item_type[d] = tag] : d \in {F, T}, tag \in TyTags }

FieldStores(nf) ==
    { [DefaultStore EXCEPT !.struct_fields[S] = fs] : fs \in SeqsUpTo(FieldNames, nf) }

StoresUpTo(nc, ni, nm, nf) ==
    ModuleStores(nc) \cup ImplStores(ni, nm) \cup TypeStores \cup FieldStores(nf)

(* A pass over any store with one re-export to inline, and a pass with     *)
(* MaxUses re-exports, typed or not, over the stores whose varied entry    *)
(* has at most one element (two for an impl list).                         *)
Inputs ==
    { [store |-> s, typed |-> TRUE, uses |-> 1] :
        s \in StoresUpTo(MaxChildren, MaxImpls, MaxMethods, MaxFields) }
    \cup
    { [store |-> s, typed |-> t, uses |-> MaxUses] :
        s \in StoresUpTo(1, 2, 1, 1), t \in BOOLEAN }

----------------------------------------------------------------------------
(* csearch::get_item_path: the path elements, crate first, item last.      *)
PathElem(kind, ident) == [elem |-> kind, ident |-> ident]
get_item_path(did) == << PathElem("PathMod", did[1]), PathElem("PathName", did[2]) >>

(* i.to_str().to_strbuf() of a path element: its identifier as a string.   *)
to_str(e) == e.ident

(* csearch::get_item_attrs: the raw attributes of an item.                 *)
RawAttr(name, value) == [name |-> name, value |-> value, is_sugared_doc |-> FALSE]

get_item_attrs(did) ==
    IF did \in {F, S, I} THEN << RawAttr("doc", Some("text")) >>
    ELSE IF did \in {T, M1} THEN << RawAttr("doc", None), RawAttr("deriving", None) >>
    ELSE <<>>

(* The closure of load_attrs: an attribute named doc that carries a string *)
(* is taken for a sugared doc comment.                                     *)
mark_sugared(a) ==
    IF a.name = "doc" /\ a.value # None
    THEN [a EXCEPT !.is_sugared_doc = TRUE]
    ELSE a

load_attrs(did) ==
    LET raw == get_item_attrs(did)
    IN  [i \in 1..Len(raw) |-> mark_sugared(raw[i])]

(* clean() of generics, signatures and types: a black box that keeps the   *)
(* identity of what it was given.                                          *)
clean_generics(did) == [generics_of |-> did]
clean_sig(did) == [decl_of |-> did]
clean_type(did) == [type_of |-> did]
clean_field(f) == [field |-> f, visibility |-> IF f = unnamed_field THEN "Inherited" ELSE "Public"]

(* clean::detect_derived                                                   *)
detect_derived(attrs) == \E i \in 1..Len(attrs) : attrs[i].name = "automatically_derived"

----------------------------------------------------------------------------
(* Results of code that may fail!(): a value, or the failure.              *)
Ok(v) == [fail |-> FALSE, val |-> v]
Fail(msg) == [fail |-> TRUE, msg |-> msg]

Last(s) == s[Len(s)]

(* cx.external_paths is a map; a missing key is NoEntry.                   *)
NoEntry == [tag |-> "NoEntry"]
Entry(fqn, kind) == [tag |-> "Entry", fqn |-> fqn, kind |-> kind]

(* Mutant: a path recorded again is appended to the one already there.     *)
record_extern_fqn_extending(paths, did, kind) ==
    IF typed
    THEN LET fqn == get_item_path(did)
             new == [i \in 1..Len(fqn) |-> to_str(fqn[i])]
         IN  [paths EXCEPT ![did] = IF @.tag = "Entry" THEN Entry(@.fqn \o new, kind)
                                                       ELSE Entry(new, kind)]
    ELSE paths

(* record_extern_fqn: the map after recording did.                         *)
record_extern_fqn(paths, did, kind) ==
    IF typed
    THEN LET fqn == get_item_path(did)
         IN  [paths EXCEPT ![did] = Entry([i \in 1..Len(fqn) |-> to_str(fqn[i])], kind)]
    ELSE paths

(* clean::Item as try_inline_def and build_impl fill it in.                *)
Item(did, name, inner, visibility) ==
    [ source |-> "Span::empty", name |-> name, attrs |-> load_attrs(did),
      inner |-> inner, visibility |-> visibility, def_id |-> did ]

(* ty::trait_methods, cleaned.                                             *)
trait_methods(did) == << [method_of |-> did] >>

build_external_trait(did) ==
    [ generics |-> clean_generics(did),
      methods |-> trait_methods(did),
      parents |-> <<>> ]

(* Mutant: the resolved type is not matched against ty_bare_fn.            *)
build_external_function_unchecked(did, style) ==
    Ok([decl |-> clean_sig(did), generics |-> clean_generics(did), fn_style |-> style])

build_external_function(did, style) ==
    IF store.item_type[did] = "ty_bare_fn"
    THEN Ok([decl |-> clean_sig(did), generics |-> clean_generics(did), fn_style |-> style])
    ELSE Fail("bad function")

(* Mutant: the one-element pattern has lost its guard.                     *)
struct_type_unguarded(fields) ==
    IF Len(fields) = 0 THEN "Unit"
    ELSE IF Len(fields) = 1 THEN "Newtype"
    ELSE IF Len(fields) >= 1 /\ fields[1] = unnamed_field THEN "Tuple"
    ELSE "Plain"

(* The match of build_struct on the field slice.                           *)
struct_type(fields) ==
    IF Len(fields) = 0 THEN "Unit"
    ELSE IF Len(fields) = 1 /\ fields[1] = unnamed_field THEN "Newtype"
    ELSE IF Len(fields) >= 1 /\ fields[1] = unnamed_field THEN "Tuple"
    ELSE "Plain"

build_struct(did) ==
    LET fields == store.struct_fields[did]
    IN  [ struct_type |-> struct_type(fields),
          generics |-> clean_generics(did),
          fields |-> [i \in 1..Len(fields) |-> clean_field(fields[i])],
          fields_stripped |-> FALSE ]

(* ty::enum_variants, cleaned.                                             *)
enum_variants(did) == << [variant_of |-> did] >>

build_type(did) ==
    IF store.item_type[did] = "ty_enum"
    THEN [ item |-> "EnumItem", generics |-> clean_generics(did),
           variants_stripped |-> FALSE, variants |-> enum_variants(did) ]
    ELSE [ item |-> "TypedefItem", type_ |-> clean_type(did),
           generics |-> clean_generics(did) ]

(* The closure of build_impl over one method: both cleaned shapes are      *)
(* unwrapped, a TyMethodItem becomes a MethodItem, anything else fails.    *)
impl_method(m) ==
    IF m.inner = "TyMethodItem"
    THEN Ok([inner |-> "MethodItem"])
    ELSE Fail("not a tymethod")

build_impl(did) ==
    LET ms == store.impl_methods[did]
        methods == [i \in 1..Len(ms) |-> impl_method(ms[i])]
        attrs == load_attrs(did)
    IN  IF \E i \in 1..Len(ms) : methods[i].fail
        THEN Fail("not a tymethod")
        ELSE Ok(Item(did, None,
                     [ item |-> "ImplItem",
                       derived |-> detect_derived(attrs),
                       for_ |-> clean_type(did),
                       generics |-> clean_generics(did),
                       methods |-> [i \in 1..Len(ms) |-> methods[i].val] ],
                     Some("Inherited")))

(* ty::populate_implementations_for_type_if_necessary: the types whose     *)
(* inherent impls have been read from the metadata into tcx.inherent_impls.*)
populate_implementations_for_type_if_necessary(pop, did) ==
    IF is_local(did) \/ did \in pop THEN pop ELSE pop \cup {did}

(* tcx.inherent_impls.find(did): an entry exists once a populated type has *)
(* at least one inherent impl.                                             *)
inherent_impls_find(pop, did) ==
    IF did \in pop /\ Len(store.impls_of[did]) > 0
    THEN Some(store.impls_of[did])
    ELSE None

(* build_impls: the impl items, in the order of the id list.               *)
build_impls(pop, did) ==
    LET found == inherent_impls_find(populate_implementations_for_type_if_necessary(pop, did), did)
        ids == IF found = None THEN <<>> ELSE found.val
        built == [i \in 1..Len(ids) |-> build_impl(ids[i])]
    IN  IF \E i \in 1..Len(ids) : built[i].fail
        THEN Fail("not a tymethod")
        ELSE Ok([i \in 1..Len(ids) |-> built[i].val])

----------------------------------------------------------------------------
(* try_inline_def, every arm but DefMod: what the call leaves behind.      *)
(*   tag    "Some" / "None" as returned, "Fail" when a builder failed      *)
(*   items  the vector returned                                            *)
(*   paths  cx.external_paths afterwards                                   *)
(*   pop    the populated types afterwards                                 *)
Outcome(tag, items, paths, pop) == [tag |-> tag, items |-> items, paths |-> paths, pop |-> pop]

(* The Item pushed last: named by the last path element, public.           *)
inlined_item(did, inner) ==
    Item(did, Some(to_str(Last(get_item_path(did)))), inner, Some("Public"))

(* Mutant: the item is pushed before the impls are appended.               *)
inline_items_item_first(impls, item) == <<item>> \o impls

(* ret.extend(build_impls(..)) followed by ret.push(item).                 *)
inline_items(impls, item) == impls \o <<item>>

(* Mutant: a variant is answered like an unsupported definition.           *)
variant_arm_none(paths, pop) == Outcome("None", <<>>, paths, pop)

(* DefVariant: the enum is assumed to be re-exported next to the variant.  *)
variant_arm(paths, pop) == Outcome("Some", <<>>, paths, pop)

(* Mutant: an unsupported definition fails the task.                       *)
unsupported_arm_fails(paths, pop) == Outcome("Fail", <<>>, paths, pop)

(* Any other Def.                                                          *)
unsupported_arm(paths, pop) == Outcome("None", <<>>, paths, pop)

(* DefStruct and DefTy: the path is recorded, the impls are built, then    *)
(* the item itself.                                                        *)
type_arm(paths, pop, did, kind, inner) ==
    LET impls == build_impls(pop, did)
        p == record_extern_fqn(paths, did, kind)
        q == populate_implementations_for_type_if_necessary(pop, did)
    IN  IF impls.fail
        THEN Outcome("Fail", <<>>, p, q)
        ELSE Outcome("Some", inline_items(impls.val, inlined_item(did, inner)), p, q)

try_inline_def(paths, pop, def) ==
    LET did == def_id_of_def(def)
    IN  CASE def.kind = "DefTrait" ->
               Outcome("Some",
                       << inlined_item(did, [item |-> "TraitItem", data |-> build_external_trait(did)]) >>,
                       record_extern_fqn(paths, did, "TypeTrait"), pop)
          [] def.kind = "DefFn" ->
               LET f == build_external_function(did, def.style)
                   p == record_extern_fqn(paths, did, "TypeFunction")
               IN  IF f.fail
                   THEN Outcome("Fail", <<>>, p, pop)
                   ELSE Outcome("Some",
                                << inlined_item(did, [item |-> "FunctionItem", data |-> f.val]) >>,
                                p, pop)
          [] def.kind = "DefStruct" ->
               type_arm(paths, pop, did, "TypeStruct",
                        [item |-> "StructItem", data |-> build_struct(did)])
          [] def.kind = "DefTy" ->
               type_arm(paths, pop, did, "TypeEnum", build_type(did))
          [] def.kind = "DefVariant" -> variant_arm(paths, pop)
          [] OTHER -> unsupported_arm(paths, pop)

(* build_module's result and the Item try_inline_def wraps it in.          *)
module_item(did, items) ==
    inlined_item(did, [item |-> "ModuleItem", items |-> items, is_crate |-> FALSE])

(* Mutant: the items of a child are put in front of the earlier ones.      *)
extend_items_front(items, o) == IF o.tag = "Some" THEN o.items \o items ELSE items

(* The callback of each_child_of_item on a DlDef: Some(i) extends the      *)
(* module's items, None leaves them.                                       *)
extend_items(items, o) == IF o.tag = "Some" THEN items \o o.items ELSE items

(* Mutant: a field is skipped.                                             *)
dl_field_skipped == Ok("skipped")

(* The callback on a DlField.                                              *)
dl_field == Fail("unimplemented field")

----------------------------------------------------------------------------
(* tcx.def_map: the definitions the re-exports of the local crate name.    *)
(* Every definition of the external crate a Def can name is re-exported,   *)
(* a local definition of each kind is, and the last node id is unmapped.   *)
KindSeq == << "DefTrait", "DefFn", "DefStruct", "DefTy", "DefVariant", "DefMod", "DefStatic" >>

DefTable ==
    << Def("DefMod", M1), Def("DefMod", M2), Def("DefFn", F), Def("DefStruct", S),
       Def("DefTy", T), Def("DefVariant", V), Def("DefStatic", X), Def("DefTrait", Tr) >>
    \o [i \in 1..Len(KindSeq) |-> Def(KindSeq[i], L)]

NodeIds == 1..(Len(DefTable) + 1)

def_map_find(id) == IF id \in 1..Len(DefTable) THEN Some(DefTable[id]) ELSE None

----------------------------------------------------------------------------
(* The state.                                                              *)
(*   store           the metadata of the external crate                    *)
(*   typed           cx.maybe_typed is Typed                               *)
(*   uses            re-exports of the local crate still to be inlined     *)
(*   external_paths  cx.external_paths                                     *)
(*   populated       types whose impls were read into tcx.inherent_impls   *)
(*   pc              idle, running (inside build_module), returned, failed *)
(*   stack           one frame per build_module call in progress           *)
(*   cur             the node id of the current try_inline call            *)
(*   result          what the call returned                                *)
(*   paths0          external_paths when the current call started          *)
(*   pop0            populated when the current call started               *)
(*   inlined         modules an earlier try_inline call returned for       *)

Pending == [tag |-> "Pending"]
Frame(did) == [did |-> did, idx |-> 1, items |-> <<>>]

Top == stack[Len(stack)]
Child == store.children[Top.did][Top.idx]
HasChild == pc = "running" /\ Top.idx <= Len(store.children[Top.did])

Init ==
    /\ \E in \in Inputs : store = in.store /\ typed = in.typed /\ uses = in.uses
    /\ external_paths = [d \in DefIds |-> NoEntry]
    /\ populated = {}
    /\ pc = "idle"
    /\ stack = <<>>
    /\ cur = 0
    /\ result = Pending
    /\ paths0 = [d \in DefIds |-> NoEntry]
    /\ pop0 = {}
    /\ inlined = {}

(* Mutant: the context is not asked whether it is typed.                   *)
try_inline_rejects_typed_unchecked(id) ==
    \/ def_map_find(id) = None
    \/ is_local(def_id_of_def(def_map_find(id).val))

(* The three early returns of try_inline.                                  *)
try_inline_rejects(id) ==
    \/ ~typed
    \/ def_map_find(id) = None
    \/ is_local(def_id_of_def(def_map_find(id).val))

(* try_inline(id), up to its return or to the first child of the module.   *)
try_inline(id) ==
    /\ pc \in {"idle", "returned"}
    /\ uses > 0
    /\ uses' = uses - 1
    /\ cur' = id
    /\ paths0' = external_paths
    /\ pop0' = populated
    /\ inlined' = IF pc = "returned" /\ result.tag = "Some" /\ DefTable[cur].kind = "DefMod"
                  THEN inlined \cup {DefTable[cur].did}
                  ELSE inlined
    /\ IF try_inline_rejects(id)
       THEN /\ pc' = "returned"
            /\ result' = None
            /\ UNCHANGED <<external_paths, populated, stack>>
       ELSE LET def == def_map_find(id).val
            IN  IF def.kind = "DefMod"
                THEN /\ external_paths' = record_extern_fqn(external_paths, def.did, "TypeModule")
                     /\ stack' = << Frame(def.did) >>
                     /\ pc' = "running"
                     /\ result' = Pending
                     /\ UNCHANGED populated
                ELSE LET o == try_inline_def(external_paths, populated, def)
                     IN  /\ external_paths' = o.paths
                         /\ populated' = o.pop
                         /\ pc' = IF o.tag = "Fail" THEN "failed" ELSE "returned"
                         /\ result' = CASE o.tag = "Some" -> Some(o.items)
                                        [] o.tag = "None" -> None
                                        [] OTHER -> Pending
                         /\ UNCHANGED stack
    /\ UNCHANGED <<store, typed>>

(* The callback of each_child_of_item on a definition other than a module. *)
ChildDef ==
    /\ HasChild
    /\ Child.tag = "DlDef"
    /\ Child.def.kind # "DefMod"
    /\ LET o == try_inline_def(external_paths, populated, Child.def)
       IN  /\ external_paths' = o.paths
           /\ populated' = o.pop
           /\ IF o.tag = "Fail"
              THEN pc' = "failed" /\ UNCHANGED stack
              ELSE /\ pc' = pc
                   /\ stack' = [stack EXCEPT ![Len(stack)] =
                                   [@ EXCEPT !.items = extend_items(@, o), !.idx = @ + 1]]
    /\ UNCHANGED <<store, typed, uses, cur, result, paths0, pop0, inlined>>

(* The callback on a module: try_inline_def records its path and calls     *)
(* build_module, which starts enumerating the children of that module.     *)
ChildMod ==
    /\ HasChild
    /\ Child.tag = "DlDef"
    /\ Child.def.kind = "DefMod"
    /\ Len(stack) < MaxDepth
    /\ external_paths' = record_extern_fqn(external_paths, Child.def.did, "TypeModule")
    /\ stack' = Append(stack, Frame(Child.def.did))
    /\ UNCHANGED <<store, typed, uses, populated, pc, cur, result, paths0, pop0, inlined>>

(* The callback on an impl: items.push(build_impl(tcx, did)).              *)
ChildImpl ==
    /\ HasChild
    /\ Child.tag = "DlImpl"
    /\ LET i == build_impl(Child.did)
       IN  IF i.fail
           THEN pc' = "failed" /\ UNCHANGED stack
           ELSE /\ pc' = pc
                /\ stack' = [stack EXCEPT ![Len(stack)] =
                                [@ EXCEPT !.items = Append(@, i.val), !.idx = @ + 1]]
    /\ UNCHANGED <<store, typed, uses, external_paths, populated, cur, result, paths0, pop0, inlined>>

(* The callback on a field.                                                *)
ChildField ==
    /\ HasChild
    /\ Child.tag = "DlField"
    /\ IF dl_field.fail
       THEN pc' = "failed" /\ UNCHANGED stack
       ELSE /\ pc' = pc
            /\ stack' = [stack EXCEPT ![Len(stack)] = [@ EXCEPT !.idx = @ + 1]]
    /\ UNCHANGED <<store, typed, uses, external_paths, populated, cur, result, paths0, pop0, inlined>>

(* each_child_of_item is done: build_module returns, try_inline_def wraps  *)
(* the module in its Item and returns Some of it, to the callback of the   *)
(* enclosing module or to try_inline's caller.                             *)
ModuleReturn ==
    /\ pc = "running"
    /\ Top.idx > Len(store.children[Top.did])
    /\ LET o == Outcome("Some", << module_item(Top.did, Top.items) >>, external_paths, populated)
       IN  IF Len(stack) = 1
           THEN /\ stack' = <<>>
                /\ pc' = "returned"
                /\ result' = Some(o.items)
           ELSE /\ stack' = [SubSeq(stack, 1, Len(stack) - 1) EXCEPT ![Len(stack) - 1] =
                                [@ EXCEPT !.items = extend_items(@, o), !.idx = @ + 1]]
                /\ UNCHANGED <<pc, result>>
    /\ UNCHANGED <<store, typed, uses, external_paths, populated, cur, paths0, pop0, inlined>>

Step == ChildDef \/ ChildMod \/ ChildImpl \/ ChildField \/ ModuleReturn

Next ==
    \/ \E id \in NodeIds : try_inline(id)
    \/ ChildDef
    \/ ChildMod
    \/ ChildImpl
    \/ ChildField
    \/ ModuleReturn

Spec == Init /\ [][Next]_vars

(* The code is synchronous: a call in progress takes its next step.        *)
FairSpec == Spec /\ WF_vars(Step)

----------------------------------------------------------------------------
(* What the properties speak of.                                           *)

HasDef == cur \in 1..Len(DefTable)
CurDef == DefTable[cur]
External(did) == did[1] # LOCAL_CRATE

(* The current call is try_inline of an external definition of this kind   *)
(* in a typed context.                                                     *)
RootIs(kind) == typed /\ HasDef /\ CurDef.kind = kind /\ External(CurDef.did)

NothingWritten == external_paths = paths0 /\ populated = pop0

(* An impl one of whose methods does not clean to a TyMethodItem.          *)
BadImpl(i) ==
    \E k \in 1..Len(store.impl_methods[i]) : store.impl_methods[i][k].inner # "TyMethodItem"

(* A definition that breaks an assumption of its builder.                  *)
Violating(def) ==
    \/ def.kind = "DefFn" /\ store.item_type[def.did] # "ty_bare_fn"
    \/ /\ def.kind \in {"DefStruct", "DefTy"}
       /\ \E k \in 1..Len(store.impls_of[def.did]) : BadImpl(store.impls_of[def.did][k])

ViolatingChild(c) ==
    \/ c.tag = "DlField"
    \/ c.tag = "DlImpl" /\ BadImpl(c.did)
    \/ c.tag = "DlDef" /\ Violating(c.def)

(* The module-child graph of the store.                                    *)
ModKids(m) ==
    { store.children[m][i].def.did :
        i \in { j \in 1..Len(store.children[m]) :
                  /\ store.children[m][j].tag = "DlDef"
                  /\ store.children[m][j].def.kind = "DefMod" } }

RECURSIVE Descend(_, _)
Descend(ms, n) ==
    IF n = 0 THEN ms
    ELSE Descend(ms \cup UNION {ModKids(m) : m \in ms}, n - 1)

ReachPlus(m) == Descend(ModKids(m), Cardinality(ModIds))
ReachStar(m) == {m} \cup ReachPlus(m)
Cyclic(m) == \E x \in ReachStar(m) : x \in ReachPlus(x)
ViolationReachable(m) ==
    \E x \in ReachStar(m) : \E i \in 1..Len(store.children[x]) : ViolatingChild(store.children[x][i])

(* An item reduced to its owner, its kind and, for a module, its contents. *)
RECURSIVE ItemSig(_)
ItemSig(it) ==
    IF it.inner.item = "ModuleItem"
    THEN << it.def_id, "ModuleItem", it.inner.is_crate,
            [i \in 1..Len(it.inner.items) |-> ItemSig(it.inner.items[i])] >>
    ELSE << it.def_id, it.inner.item >>

Sigs(items) == [i \in 1..Len(items) |-> ItemSig(items[i])]

(* The items the metadata calls for, read off the store: for a type its    *)
(* inherent impls in the order of the id list, then the type.              *)
TypeSigs(did, kind) ==
    [i \in 1..Len(store.impls_of[did]) |-> << store.impls_of[did][i], "ImplItem" >>]
    \o << << did, kind >> >>

RECURSIVE ModuleSigs(_, _, _)
ChildSigs(c, fuel) ==
    CASE c.tag = "DlImpl" -> << << c.did, "ImplItem" >> >>
      [] c.tag = "DlDef" /\ c.def.kind = "DefFn" -> << << c.def.did, "FunctionItem" >> >>
      [] c.tag = "DlDef" /\ c.def.kind = "DefTrait" -> << << c.def.did, "TraitItem" >> >>
      [] c.tag = "DlDef" /\ c.def.kind = "DefStruct" -> TypeSigs(c.def.did, "StructItem")
      [] c.tag = "DlDef" /\ c.def.kind = "DefTy" ->
           TypeSigs(c.def.did, IF store.item_type[c.def.did] = "ty_enum"
                               THEN "EnumItem" ELSE "TypedefItem")
      [] c.tag = "DlDef" /\ c.def.kind = "DefMod" /\ fuel > 0 ->
           << << c.def.did, "ModuleItem", FALSE,
                 ModuleSigs(c.def.did, Len(store.children[c.def.did]), fuel - 1) >> >>
      [] OTHER -> <<>>

ModuleSigs(m, n, fuel) ==
    IF n = 0 THEN <<>>
    ELSE ModuleSigs(m, n - 1, fuel) \o ChildSigs(store.children[m][n], fuel)

RECURSIVE AllExternal(_)
AllExternal(items) ==
    \A i \in 1..Len(items) :
        /\ External(items[i].def_id)
        /\ items[i].inner.item = "ModuleItem" => AllExternal(items[i].inner.items)

----------------------------------------------------------------------------
(* C1: try_inline returns None, leaves external_paths as it was and builds *)
(* nothing whenever the context is untyped, the node is not in the         *)
(* definition map or its definition is local, whatever the kind.           *)
C1_NotInlinableIsNone ==
    (cur # 0 /\ (~typed \/ ~HasDef \/ ~External(CurDef.did)))
        => /\ pc = "returned"
           /\ result = None
           /\ stack = <<>>
           /\ NothingWritten

(* A local variant is refused in a typed context that has already inlined  *)
(* something.                                                              *)
C1_Witness ==
    /\ typed /\ HasDef /\ ~External(CurDef.did) /\ CurDef.kind = "DefVariant"
    /\ pc = "returned" /\ result = None
    /\ \E d \in DefIds : external_paths[d] # NoEntry

(* C2: try_inline of an external variant in a typed context returns Some   *)
(* of the empty vector, not None, and writes nothing.                      *)
C2_VariantIsSomeEmpty ==
    RootIs("DefVariant")
        => /\ pc = "returned"
           /\ result = Some(<<>>)
           /\ result # None
           /\ NothingWritten

C2_Witness == RootIs("DefVariant") /\ pc = "returned" /\ result.tag = "Some"

(* C3: try_inline of an external struct or type with N inherent impls      *)
(* (none when the index has no entry) returns N + 1 items: the N impl      *)
(* items in the order of the id list, then the item of the type, the same  *)
(* whatever was inlined before.  It returns whenever every method of the   *)
(* impls cleans to a TyMethodItem.                                         *)
C3_ImplsThenType ==
    (RootIs("DefStruct") \/ RootIs("DefTy"))
        => LET did == CurDef.did
               n == Len(store.impls_of[did])
               bad == \E k \in 1..n : BadImpl(store.impls_of[did][k])
           IN  /\ ~bad => pc = "returned"
               /\ pc = "returned" =>
                    /\ result.tag = "Some"
                    /\ Len(result.val) = n + 1
                    /\ \A i \in 1..n :
                         /\ result.val[i].def_id = store.impls_of[did][i]
                         /\ result.val[i].inner.item = "ImplItem"
                    /\ result.val[n + 1].def_id = did
                    /\ result.val[n + 1].inner.item =
                         IF CurDef.kind = "DefStruct" THEN "StructItem"
                         ELSE IF store.item_type[did] = "ty_enum" THEN "EnumItem"
                         ELSE "TypedefItem"
                    /\ result.val[n + 1].name = Some(did[2])
                    /\ result.val[n + 1].visibility = Some("Public")

(* A type with two impls is inlined a second time.                         *)
C3_Witness ==
    /\ RootIs("DefStruct") \/ RootIs("DefTy")
    /\ pc = "returned"
    /\ CurDef.did \in pop0
    /\ Len(result.val) = 3

(* C4: while and after an external module is inlined that an earlier call  *)
(* already inlined, external_paths is what it was when the call started.   *)
C4_SecondInlineKeepsPaths ==
    (RootIs("DefMod") /\ CurDef.did \in inlined) => external_paths = paths0

(* The second call has returned, and the paths of the module and of two    *)
(* definitions below it are on record.                                     *)
C4_Witness ==
    /\ RootIs("DefMod") /\ CurDef.did \in inlined
    /\ pc = "returned"
    /\ Cardinality({d \in DefIds : external_paths[d] # NoEntry}) >= 3

(* C5: the struct built for a field list is Unit for no field, Newtype for *)
(* one field named unnamed_field, Tuple for two or more fields the first   *)
(* of which is named unnamed_field, Plain otherwise; its fields are the    *)
(* cleaned fields in the same order, and fields_stripped is false.         *)
C5_StructShape ==
    (RootIs("DefStruct") /\ pc = "returned")
        => LET fs == store.struct_fields[CurDef.did]
               st == result.val[Len(result.val)].inner.data
           IN  /\ st.struct_type =
                    CASE Len(fs) = 0 -> "Unit"
                      [] Len(fs) = 1 /\ fs[1] = unnamed_field -> "Newtype"
                      [] Len(fs) >= 2 /\ fs[1] = unnamed_field -> "Tuple"
                      [] OTHER -> "Plain"
               /\ Len(st.fields) = Len(fs)
               /\ \A i \in 1..Len(fs) : st.fields[i].field = fs[i]
               /\ st.fields_stripped = FALSE

(* A named first field followed by an unnamed one: Plain.                  *)
C5_Witness ==
    /\ RootIs("DefStruct") /\ pc = "returned"
    /\ Len(store.struct_fields[CurDef.did]) >= 2
    /\ store.struct_fields[CurDef.did][1] # unnamed_field
    /\ store.struct_fields[CurDef.did][2] = unnamed_field
    /\ result.val[Len(result.val)].inner.data.struct_type = "Plain"

(* C6: try_inline of an external module returns, whenever it returns, one  *)
(* ModuleItem that is no crate and holds, in the enumeration order of the  *)
(* children, what each child contributes: a definition its own items, an   *)
(* impl one ImplItem, a variant nothing; nested modules likewise.          *)
C6_ModuleItems ==
    (RootIs("DefMod") /\ pc = "returned")
        => /\ result.tag = "Some"
           /\ Len(result.val) = 1
           /\ ItemSig(result.val[1]) =
                << CurDef.did, "ModuleItem", FALSE,
                   ModuleSigs(CurDef.did, Len(store.children[CurDef.did]), MaxDepth) >>

(* mod m1 { fn f; struct S; variant V } yields the items of f and S.       *)
C6_Witness ==
    /\ RootIs("DefMod") /\ pc = "returned"
    /\ store.children[CurDef.did] =
         << DlDef(Def("DefFn", F)), DlDef(Def("DefStruct", S)), DlDef(Def("DefVariant", V)) >>
    /\ store.impls_of[S] = <<>>
    /\ Sigs(result.val[1].inner.items) = << <<F, "FunctionItem">>, <<S, "StructItem">> >>

(* C7: an external definition of an unsupported kind is answered None      *)
(* without failing and without writing anything; as a child of a module    *)
(* it adds no item and the enumeration goes on with the next child.        *)
C7_UnsupportedIsNone ==
    /\ [](RootIs("DefStatic") => pc = "returned" /\ result = None /\ NothingWritten)
    /\ [][ (HasChild /\ Child.tag = "DlDef"
              /\ Child.def.kind \notin {"DefTrait", "DefFn", "DefStruct", "DefTy",
                                        "DefVariant", "DefMod"})
           => /\ pc' = "running"
              /\ stack' = [stack EXCEPT ![Len(stack)] = [@ EXCEPT !.idx = @ + 1]]
              /\ external_paths' = external_paths
              /\ populated' = populated ]_vars

(* A module is past an unsupported child and has taken an item since.      *)
C7_Witness ==
    /\ pc = "running"
    /\ \E k \in 1..(Top.idx - 2) :
         /\ store.children[Top.did][k].tag = "DlDef"
         /\ store.children[Top.did][k].def.kind = "DefStatic"
    /\ Len(Top.items) > 0

(* C8: a function that is no ty_bare_fn, an impl method that is no         *)
(* TyMethodItem and a field among the children of a module fail the task   *)
(* where they are met, at the root, in an impl of a type and in a nested   *)
(* module: the call has no result then, neither a vector nor None, and no  *)
(* step follows.                                                           *)
C8_ViolationAborts ==
    /\ [](pc = "failed" => result = Pending)
    /\ [][ /\ pc # "failed"
           /\ (pc \in {"idle", "returned"} /\ typed /\ cur' \in 1..Len(DefTable)
                 /\ External(DefTable[cur'].did) /\ Violating(DefTable[cur']))
              => pc' = "failed" /\ result' = Pending
           /\ (HasChild /\ ViolatingChild(Child))
              => pc' = "failed" /\ result' = Pending /\ stack' = stack ]_vars

(* The task failed two modules deep, with a child left after the one that  *)
(* failed it.                                                              *)
C8_Witness ==
    /\ pc = "failed"
    /\ Len(stack) >= 2
    /\ Top.idx < Len(store.children[Top.did])

(* C9: every item built, in a result or in a module under construction,    *)
(* at any depth, is owned by an id of another crate.                       *)
C9_ItemsAreExternal ==
    /\ result.tag = "Some" => AllExternal(result.val)
    /\ \A k \in 1..Len(stack) : AllExternal(stack[k].items)

(* A result that holds a module inside a module, with an item in it.       *)
C9_Witness ==
    /\ pc = "returned" /\ result.tag = "Some" /\ Len(result.val) = 1
    /\ result.val[1].inner.item = "ModuleItem"
    /\ \E i \in 1..Len(result.val[1].inner.items) :
         /\ result.val[1].inner.items[i].inner.item = "ModuleItem"
         /\ Len(result.val[1].inner.items[i].inner.items) > 0

(* C10 as claimed: try_inline of an external module returns if and only if *)
(* the module graph below it has no cycle, and with a cycle it recurses    *)
(* without bound.                                                          *)
C10_ReturnsIffAcyclic ==
    /\ (RootIs("DefMod") /\ pc = "running" /\ ~Cyclic(CurDef.did)) ~> (pc = "returned")
    /\ [](RootIs("DefMod") /\ pc = "returned" => ~Cyclic(CurDef.did))
    /\ (RootIs("DefMod") /\ pc = "running" /\ Cyclic(CurDef.did)) ~> (Len(stack) = MaxDepth)

(* C10 amended: it returns if and only if the module graph below it has no *)
(* cycle and no module of it has a child that breaks an assumption; with a *)
(* cycle it never returns, and it recurses without bound unless such a     *)
(* child fails the task first.                                             *)
C10_ReturnsIffAcyclicAndSound ==
    /\ (RootIs("DefMod") /\ pc = "running"
          /\ ~Cyclic(CurDef.did) /\ ~ViolationReachable(CurDef.did)) ~> (pc = "returned")
    /\ [](RootIs("DefMod") /\ pc = "returned"
            => ~Cyclic(CurDef.did) /\ ~ViolationReachable(CurDef.did))
    /\ [](RootIs("DefMod") /\ pc = "failed" => ViolationReachable(CurDef.did))
    /\ (RootIs("DefMod") /\ pc = "running"
          /\ Cyclic(CurDef.did) /\ ~ViolationReachable(CurDef.did)) ~> (Len(stack) = MaxDepth)
    /\ [](Len(stack) = MaxDepth /\ HasChild /\ Child.tag = "DlDef" /\ Child.def.kind = "DefMod"
            => Cyclic(CurDef.did))

(* The recursion into a cyclic module graph has reached the depth bound.   *)
C10_Witness ==
    /\ RootIs("DefMod") /\ Cyclic(CurDef.did)
    /\ pc = "running" /\ Len(stack) = MaxDepth
    /\ HasChild /\ Child.tag = "DlDef" /\ Child.def.kind = "DefMod"

====
